---- MODULE Spec2Model ----
(***************************************************************************)
(* Model of src/src/kwikset.ts: the cached-session / password / MFA login  *)
(* flow of kwiksetLogin, the /submitmfa handler of the local listener, the *)
(* token file, and apiRequest.                                             *)
(*                                                                         *)
(* The identity provider is the environment: every call made to it is an   *)
(* action whose outcomes are the ones the call site distinguishes (value   *)
(* or error).  A "correct" code is a code whose challenge answer and       *)
(* following user fetch the provider lets through; an incorrect code is    *)
(* rejected by one of those two calls.                                     *)
(***************************************************************************)
EXTENDS Integers, Sequences, FiniteSets, TLC

\* ------------------------------------------------------------------ bounds
\* kwiksetLogin calls made in one process, one after the other
MaxRuns == 2
\* POST /submitmfa requests received by one listener
MaxRequests == 3

\* ------------------------------------------------------------------ values
\* undefined as a string value, undefined and null as object values, and
\* the token file not existing
Undefined == <<"undefined">>
Unset == [undefined |-> TRUE]
Null == [null |-> TRUE]
NoFile == <<"ENOENT">>

\* token strings, as sequences of characters; the last one holds the two
\* characters JSON has to escape
TokA == <<"a">>
TokB == <<"b">>
TokQ == <<"\"", "\\">>
Tokens == {TokA, TokB, TokQ}

\* sessions the provider can hand out: session.idToken.jwtToken,
\* session.accessToken.jwtToken, session.refreshToken.token
MkSession(i, a, r) ==
    [idToken |-> [jwtToken |-> i], accessToken |-> [jwtToken |-> a],
     refreshToken |-> [token |-> r]]
Sessions == {MkSession(TokA, TokB, TokQ), MkSession(TokB, TokQ, TokA)}

\* const.ts is not part of the sources at hand: the host and user agent are
\* the fixed values the specification speaks of
API_HOST == "API_HOST"
API_USER_AGENT == "API_USER_AGENT"
\* the calls made through apiRequest: opts.path, opts.method, opts.body
NoBody == "undefined"
ApiCalls ==
    { [path |-> "lock/status", method |-> "GET", body |-> NoBody],
      [path |-> "lock/command", method |-> "POST", body |-> "{}"] }

\* user.challengeName; the last one is a user signed in with no challenge
NoChallenge == "undefined"
\* `let user;` before Auth.signIn has returned
NoUser == "unassigned"
ChallengeNames == {"CUSTOM_CHALLENGE", "SOFTWARE_TOKEN_MFA", NoChallenge}

GoodCode == "123456"
BadCode == "000000"
Codes == {GoodCode, BadCode}

\* --------------------------------------------------------- JSON (de)coding
QUOTE == "\""
BSLASH == "\\"

RECURSIVE Escape(_)
Escape(s) ==
    IF s = <<>> THEN <<>>
    ELSE IF Head(s) \in {QUOTE, BSLASH}
         THEN <<BSLASH, Head(s)>> \o Escape(Tail(s))
         ELSE <<Head(s)>> \o Escape(Tail(s))

JsonString(s) == <<QUOTE>> \o Escape(s) \o <<QUOTE>>

KeyId == <<"i", "d", "T", "o", "k", "e", "n">>
KeyAccess == <<"a", "c", "c", "e", "s", "s", "T", "o", "k", "e", "n">>
KeyRefresh == <<"r", "e", "f", "r", "e", "s", "h", "T", "o", "k", "e", "n">>
NullText == <<"n", "u", "l", "l">>

\* JSON.stringify(creds), creds a Credentials record or null
JSONstringify(creds) ==
    IF creds = Null THEN NullText
    ELSE <<"{">> \o JsonString(KeyId) \o <<":">> \o JsonString(creds.idToken)
         \o <<",">> \o JsonString(KeyAccess) \o <<":">> \o JsonString(creds.accessToken)
         \o <<",">> \o JsonString(KeyRefresh) \o <<":">> \o JsonString(creds.refreshToken)
         \o <<"}">>

\* reads the characters of a JSON string whose opening quote is at i - 1;
\* yields the decoded value and the position after the closing quote
RECURSIVE ScanString(_, _, _)
ScanString(s, i, acc) ==
    IF s[i] = QUOTE THEN [val |-> acc, next |-> i + 1]
    ELSE IF s[i] = BSLASH THEN ScanString(s, i + 2, Append(acc, s[i + 1]))
    ELSE ScanString(s, i + 1, Append(acc, s[i]))

\* reads "key":"value" members from position i (just after "{" or ",")
RECURSIVE ScanMembers(_, _, _)
ScanMembers(s, i, obj) ==
    LET k == ScanString(s, i + 1, <<>>)
        v == ScanString(s, k.next + 2, <<>>)
        got == [x \in DOMAIN obj \cup {k.val} |-> IF x = k.val THEN v.val ELSE obj[x]]
    IN IF s[v.next] = "," THEN ScanMembers(s, v.next + 1, got) ELSE got

Member(obj, key) == IF key \in DOMAIN obj THEN obj[key] ELSE Undefined

\* JSON.parse(text) of a text JSON.stringify wrote, read back the way
\* kwiksetLogin reads it: savedCreds.idToken, .accessToken, .refreshToken
JSONparse(text) ==
    IF text = NullText THEN Null
    ELSE LET obj == ScanMembers(text, 2, <<>>)
         IN [idToken |-> Member(obj, KeyId),
             accessToken |-> Member(obj, KeyAccess),
             refreshToken |-> Member(obj, KeyRefresh)]

\* ------------------------------------------------- getCredentialsFromSession
\* (bug variant: the id token is read from the access token of the session)
getCredentialsFromSession_wrongField(err, session) ==
    IF err THEN Null
    ELSE [idToken |-> session.accessToken.jwtToken,
          accessToken |-> session.accessToken.jwtToken,
          refreshToken |-> session.refreshToken.token]

\* (bug variant: err is not looked at)
getCredentialsFromSession_ignoresErr(err, session) ==
    [idToken |-> session.idToken.jwtToken,
     accessToken |-> session.accessToken.jwtToken,
     refreshToken |-> session.refreshToken.token]

\* user.getSession((err, session) => ...): null on err, else the three tokens
getCredentialsFromSession(err, session) ==
    IF err THEN Null
    ELSE [idToken |-> session.idToken.jwtToken,
          accessToken |-> session.accessToken.jwtToken,
          refreshToken |-> session.refreshToken.token]

\* (bug variant: the access and refresh tokens change places)
logInWithStoredCreds_swapped(idTok, accessTok, refreshTok) ==
    [IdToken |-> idTok, AccessToken |-> refreshTok, RefreshToken |-> accessTok]

\* logInWithStoredCreds builds the user session from the three stored values
\* in this order and asks getCredentialsFromSession for its session
logInWithStoredCreds(idTok, accessTok, refreshTok) ==
    [IdToken |-> idTok, AccessToken |-> accessTok, RefreshToken |-> refreshTok]

\* the values kwiksetLogin can have written to the token file
Writable == {getCredentialsFromSession(err, s) : err \in BOOLEAN, s \in Sessions}

\* savedCreds ? ... : null, and !credentials
Truthy(v) == v # Unset /\ v # Null

\* credentials?.idToken
OptIdToken(creds) == IF creds = Null THEN Undefined ELSE creds.idToken

\* (bug variant: the two branches of the responder change places)
RedirectFor_swapped(success) == IF success THEN "/?error=bad+code" ELSE "/success.html"

\* res.redirect target chosen by the 'authFeedback' listener
RedirectFor(success) == IF success THEN "/success.html" ELSE "/?error=bad+code"

\* (bug variant: on() in place of once(): the listener stays registered)
AfterEmitOnce_stays(n) == n

\* listeners left registered for an event after emit() ran the n listeners
\* that had been registered with once()
AfterEmitOnce(n) == 0

\* ------------------------------------------------------------------- state
VARIABLES
    file,          \* token file: NoFile or its text
    idToken,       \* module-level idToken
    run,           \* kwiksetLogin calls started so far
    pc,            \* where kwiksetLogin is suspended
    savedCreds,    \* kwiksetLogin local
    credentials,   \* kwiksetLogin local
    user,          \* challengeName of the user Auth.signIn returned
    server,        \* "none" (null), "listening", "closed"
    timers,        \* setTimeout(() => server?.close(), 7000) pending
    codeListeners, \* listeners registered for 'code' on mfaCodeSignal
    feedback,      \* requests whose 'authFeedback' listener is registered
    reqs,          \* POST /submitmfa requests received, in arrival order: the
                   \* code, the redirect answered, the callbacks that were
                   \* verifying a code on arrival, whether a listener took it
    cb,            \* per request: where its 'code' callback is suspended
    api,           \* the fetch apiRequest has in flight, if any
    hist,          \* what the current kwiksetLogin call has done so far
    written        \* the value last given to JSON.stringify for the file,
                   \* and the call that wrote it (0: before this process)

vars == <<file, idToken, run, pc, savedCreds, credentials, user, server, timers,
          codeListeners, feedback, reqs, cb, api, hist, written>>

loginVars == <<file, idToken, run, pc, savedCreds, credentials, user, server,
               timers, codeListeners, feedback, reqs, cb, hist, written>>

NoRequest == [sent |-> FALSE]

Hist0(f, t) ==
    [file0 |-> f,              \* the token file when the call started
     idToken0 |-> t,           \* idToken when the call started
     outcome |-> "running",    \* how the call ended
     signIn |-> 0,             \* Auth.signIn calls made
     codeRequested |-> FALSE,  \* the generateCode answer was sent
     handed |-> Unset,         \* the tokens given to logInWithStoredCreds
     boot |-> Unset,           \* what getSession called back with for them
     accepted |-> FALSE,       \* the provider accepted a code
     loggedIn |-> FALSE]       \* 'Logged in!' was logged

Init ==
    /\ \E v \in {Unset} \cup Writable :
         /\ written = [value |-> v, by |-> 0]
         /\ file = IF v = Unset THEN NoFile ELSE JSONstringify(v)
    /\ idToken = Undefined
    /\ run = 0
    /\ pc = "idle"
    /\ savedCreds = Unset
    /\ credentials = Null
    /\ user = NoUser
    /\ server = "none"
    /\ timers = 0
    /\ codeListeners = 0
    /\ feedback = <<>>
    /\ reqs = <<>>
    /\ cb = <<>>
    /\ api = NoRequest
    /\ hist = Hist0(file, Undefined)

InFlight == {r \in DOMAIN cb : cb[r] \in {"answer", "user", "session"}}

\* the current kwiksetLogin call has written the token file
Wrote == run > 0 /\ written.by = run

\* state 4 of the login flow, reached with a captured credential record
Authenticated ==
    pc = "done" /\ hist.outcome \in {"cached", "mfa"} /\ Truthy(credentials)

\* ------------------------------------------------------------ kwiksetLogin
\* lines 78-111: read the token file, then either hand the stored tokens to
\* logInWithStoredCreds or, with nothing stored, go on to Auth.signIn
\* (a call is started once the listener of the call before it has closed,
\* the port being the same)
StartLogin ==
    /\ pc \in {"idle", "done", "threw"}
    /\ server # "listening"
    /\ run < MaxRuns
    /\ run' = run + 1
    /\ LET saved == IF file = NoFile THEN Unset ELSE JSONparse(file)
           h == Hist0(file, idToken)
       IN /\ savedCreds' = saved
          /\ credentials' = Null
          /\ IF Truthy(saved)
             THEN /\ pc' = "bootstrap"
                  /\ hist' = [h EXCEPT !.handed =
                                logInWithStoredCreds(saved.idToken, saved.accessToken,
                                                     saved.refreshToken)]
             ELSE /\ pc' = "signIn"
                  /\ hist' = [h EXCEPT !.signIn = 1]
    /\ user' = NoUser
    /\ server' = "none"
    /\ timers' = 0
    /\ codeListeners' = 0
    /\ feedback' = <<>>
    /\ reqs' = <<>>
    /\ cb' = <<>>
    /\ UNCHANGED <<file, idToken, api, written>>

\* (bug variant: the cached-session success path writes the fresh tokens)
BootstrapReply_persists ==
    /\ pc = "bootstrap"
    /\ \E err \in BOOLEAN, session \in Sessions :
         LET c == getCredentialsFromSession(err, session)
         IN /\ credentials' = c
            /\ IF Truthy(c)
               THEN /\ idToken' = OptIdToken(c)
                    /\ pc' = "done"
                    /\ written' = [value |-> c, by |-> run]
                    /\ file' = JSONstringify(c)
                    /\ hist' = [hist EXCEPT !.boot = [err |-> err, session |-> session],
                                            !.outcome = "cached", !.loggedIn = TRUE]
               ELSE /\ idToken' = idToken
                    /\ pc' = "signIn"
                    /\ hist' = [hist EXCEPT !.boot = [err |-> err, session |-> session],
                                            !.signIn = @ + 1]
                    /\ UNCHANGED <<file, written>>
    /\ UNCHANGED <<run, savedCreds, user, server, timers, codeListeners,
                   feedback, reqs, cb, api>>

\* lines 99-107 and 180-181: the provider answers getSession for the stored
\* session, with an error or with a (possibly refreshed) session
BootstrapReply ==
    /\ pc = "bootstrap"
    /\ \E err \in BOOLEAN, session \in Sessions :
         LET c == getCredentialsFromSession(err, session)
         IN /\ credentials' = c
            /\ IF Truthy(c)
               THEN /\ idToken' = OptIdToken(c)
                    /\ pc' = "done"
                    /\ hist' = [hist EXCEPT !.boot = [err |-> err, session |-> session],
                                            !.outcome = "cached", !.loggedIn = TRUE]
               ELSE /\ idToken' = idToken
                    /\ pc' = "signIn"
                    /\ hist' = [hist EXCEPT !.boot = [err |-> err, session |-> session],
                                            !.signIn = @ + 1]
    /\ UNCHANGED <<file, run, savedCreds, user, server, timers, codeListeners,
                   feedback, reqs, cb, api, written>>

\* (bug variant: a failed sign-in is tried once more before giving up)
SignInFails_retries ==
    /\ pc = "signIn"
    /\ IF hist.signIn < 2
       THEN /\ pc' = "signIn"
            /\ hist' = [hist EXCEPT !.signIn = @ + 1]
       ELSE /\ pc' = "done"
            /\ hist' = [hist EXCEPT !.outcome = "signInFailed"]
    /\ UNCHANGED <<file, idToken, run, savedCreds, credentials, user, server,
                   timers, codeListeners, feedback, reqs, cb, api, written>>

\* lines 110-115: Auth.signIn throws; the error is logged and the call returns
SignInFails ==
    /\ pc = "signIn"
    /\ pc' = "done"
    /\ hist' = [hist EXCEPT !.outcome = "signInFailed"]
    /\ UNCHANGED <<file, idToken, run, savedCreds, credentials, user, server,
                   timers, codeListeners, feedback, reqs, cb, api, written>>

\* (bug variant: the unknown-challenge branch returns before line 180)
SignInReply_returnsEarly ==
    /\ pc = "signIn"
    /\ \E name \in ChallengeNames :
         /\ user' = name
         /\ IF name = "CUSTOM_CHALLENGE"
            THEN /\ pc' = "genCode"
                 /\ hist' = [hist EXCEPT !.codeRequested = TRUE]
            ELSE /\ pc' = "done"
                 /\ hist' = [hist EXCEPT !.outcome = "unknownChallenge"]
    /\ UNCHANGED <<file, idToken, run, savedCreds, credentials, server, timers,
                   codeListeners, feedback, reqs, cb, api, written>>

\* lines 111, 117-121, 175-181: Auth.signIn returns a user
SignInReply ==
    /\ pc = "signIn"
    /\ \E name \in ChallengeNames :
         /\ user' = name
         /\ IF name = "CUSTOM_CHALLENGE"
            THEN /\ pc' = "genCode"
                 /\ hist' = [hist EXCEPT !.codeRequested = TRUE]
                 /\ idToken' = idToken
            ELSE /\ pc' = "done"
                 /\ idToken' = OptIdToken(credentials)
                 /\ hist' = [hist EXCEPT !.outcome = "unknownChallenge",
                                         !.loggedIn = TRUE]
    /\ UNCHANGED <<file, run, savedCreds, credentials, server, timers,
                   codeListeners, feedback, reqs, cb, api, written>>

\* lines 118-121 outside any try: the generateCode answer throws, and so
\* does kwiksetLogin
GenCodeFails ==
    /\ pc = "genCode"
    /\ pc' = "threw"
    /\ hist' = [hist EXCEPT !.outcome = "threw"]
    /\ UNCHANGED <<file, idToken, run, savedCreds, credentials, user, server,
                   timers, codeListeners, feedback, reqs, cb, api, written>>

\* lines 118-150: the code was generated; the listener is started and the
\* first pass of the verify loop registers its once('code') listener
GenCodeReply ==
    /\ pc = "genCode"
    /\ pc' = "awaitCode"
    /\ server' = "listening"
    /\ codeListeners' = codeListeners + 1
    /\ UNCHANGED <<file, idToken, run, savedCreds, credentials, user, timers,
                   feedback, reqs, cb, api, hist, written>>

\* ------------------------------------------------- the /submitmfa handler
\* lines 129-141 and 150-155: emit('code') runs the once('code') callback, if
\* one is registered, up to its first await (the verifyCode answer is sent);
\* then the handler registers its once('authFeedback') listener
SubmitMfa ==
    /\ server = "listening"
    /\ Len(reqs) < MaxRequests
    /\ \E code \in Codes :
         LET r == Len(reqs) + 1
             heard == codeListeners > 0
         IN /\ reqs' = Append(reqs, [code |-> code, resp |-> "pending",
                                     during |-> InFlight, sent |-> heard])
            /\ cb' = Append(cb, IF heard THEN "answer" ELSE "none")
            /\ codeListeners' = IF heard THEN AfterEmitOnce(codeListeners) ELSE 0
            /\ feedback' = Append(feedback, r)
    /\ UNCHANGED <<file, idToken, run, pc, savedCreds, credentials, user, server,
                   timers, api, hist, written>>

\* (bug variant: the responder sets the close timer on either verdict)
Resolve_closesOnFailure(r, success, creds) ==
    /\ cb' = [cb EXCEPT ![r] = "done"]
    /\ credentials' = creds
    /\ IF pc = "awaitCode"
       THEN /\ reqs' = [q \in DOMAIN reqs |->
                          IF \E k \in DOMAIN feedback : feedback[k] = q
                          THEN [reqs[q] EXCEPT !.resp = RedirectFor(success)]
                          ELSE reqs[q]]
            /\ feedback' = <<>>
            /\ timers' = timers + Len(feedback)
            /\ pc' = IF success THEN "finalUser" ELSE "awaitCode"
            /\ codeListeners' = IF success THEN codeListeners ELSE codeListeners + 1
       ELSE UNCHANGED <<reqs, feedback, timers, pc, codeListeners>>
    /\ UNCHANGED <<file, idToken, run, savedCreds, user, server, api, written>>

\* lines 167-170 (and 131-140 run by the emit): the promise of this pass of
\* the loop resolves with `success`; 'authFeedback' is emitted to every
\* registered listener, and the loop goes round or leaves
Resolve(r, success, creds) ==
    /\ cb' = [cb EXCEPT ![r] = "done"]
    /\ credentials' = creds
    /\ IF pc = "awaitCode"
       THEN /\ reqs' = [q \in DOMAIN reqs |->
                          IF \E k \in DOMAIN feedback : feedback[k] = q
                          THEN [reqs[q] EXCEPT !.resp = RedirectFor(success)]
                          ELSE reqs[q]]
            /\ feedback' = <<>>
            /\ timers' = IF success THEN timers + Len(feedback) ELSE timers
            /\ pc' = IF success THEN "finalUser" ELSE "awaitCode"
            /\ codeListeners' = IF success THEN codeListeners ELSE codeListeners + 1
       ELSE UNCHANGED <<reqs, feedback, timers, pc, codeListeners>>
    /\ UNCHANGED <<file, idToken, run, savedCreds, user, server, api, written>>

\* lines 152-155, not inside the try: the provider rejects the verifyCode
\* answer by throwing; the callback ends there and never calls resolve
VerifyAnswerThrows(r) ==
    /\ cb[r] = "answer"
    /\ reqs[r].code # GoodCode
    /\ cb' = [cb EXCEPT ![r] = "threw"]
    /\ UNCHANGED <<file, idToken, run, pc, savedCreds, credentials, user, server,
                   timers, codeListeners, feedback, reqs, api, hist, written>>

\* lines 152-157: the verifyCode answer returns (for a wrong code, with the
\* challenge posed again); Auth.currentAuthenticatedUser is called
VerifyAnswerReply(r) ==
    /\ cb[r] = "answer"
    /\ cb' = [cb EXCEPT ![r] = "user"]
    /\ UNCHANGED <<file, idToken, run, pc, savedCreds, credentials, user, server,
                   timers, codeListeners, feedback, reqs, api, hist, written>>

\* lines 157 and 160-163: no user is signed in after a wrong code;
\* currentAuthenticatedUser throws and the catch resolves false
CurrentUserThrows(r) ==
    /\ cb[r] = "user"
    /\ reqs[r].code # GoodCode
    /\ Resolve(r, FALSE, credentials)
    /\ UNCHANGED hist

\* lines 157-158: the code was accepted; the session of the signed-in user
\* is asked for
CurrentUserReply(r) ==
    /\ cb[r] = "user"
    /\ reqs[r].code = GoodCode
    /\ cb' = [cb EXCEPT ![r] = "session"]
    /\ hist' = [hist EXCEPT !.accepted = TRUE]
    /\ UNCHANGED <<file, idToken, run, pc, savedCreds, credentials, user, server,
                   timers, codeListeners, feedback, reqs, api, written>>

\* lines 158-159: credentials = await getCredentialsFromSession(...), then
\* resolve(true) whatever that gave
SessionReply(r) ==
    /\ cb[r] = "session"
    /\ \E err \in BOOLEAN, session \in Sessions :
         Resolve(r, TRUE, getCredentialsFromSession(err, session))
    /\ UNCHANGED hist

\* lines 134-136: a timer set by a success responder fires
CloseTimer ==
    /\ timers > 0
    /\ timers' = timers - 1
    /\ server' = IF server = "none" THEN "none" ELSE "closed"
    /\ UNCHANGED <<file, idToken, run, pc, savedCreds, credentials, user,
                   codeListeners, feedback, reqs, cb, api, hist, written>>

\* line 172, not inside a try: Auth.currentAuthenticatedUser throws
FinalUserThrows ==
    /\ pc = "finalUser"
    /\ pc' = "threw"
    /\ hist' = [hist EXCEPT !.outcome = "threw"]
    /\ UNCHANGED <<file, idToken, run, savedCreds, credentials, user, server,
                   timers, codeListeners, feedback, reqs, cb, api, written>>

\* line 172: Auth.currentAuthenticatedUser returns; its session is asked for
FinalUserReply ==
    /\ pc = "finalUser"
    /\ pc' = "finalSession"
    /\ UNCHANGED <<file, idToken, run, savedCreds, credentials, user, server,
                   timers, codeListeners, feedback, reqs, cb, api, hist, written>>

\* lines 172-181: creds is written to the token file, idToken is taken from
\* credentials
FinalSessionReply ==
    /\ pc = "finalSession"
    /\ \E err \in BOOLEAN, session \in Sessions :
         /\ written' = [value |-> getCredentialsFromSession(err, session), by |-> run]
         /\ file' = JSONstringify(written'.value)
    /\ idToken' = OptIdToken(credentials)
    /\ pc' = "done"
    /\ hist' = [hist EXCEPT !.outcome = "mfa", !.loggedIn = TRUE]
    /\ UNCHANGED <<run, savedCreds, credentials, user, server, timers,
                   codeListeners, feedback, reqs, cb, api>>

\* -------------------------------------------------------------- apiRequest
\* (bug variant: the token is sent without the Bearer scheme)
RequestOf_noScheme(path, method, body) ==
    [url |-> <<"https://", API_HOST, "/", path>>,
     method |-> method,
     headers |-> [Host |-> API_HOST, UserAgent |-> API_USER_AGENT,
                  AcceptEncoding |-> "gzip", Authorization |-> idToken],
     body |-> body]

\* lines 184-197
RequestOf(path, method, body) ==
    [url |-> <<"https://", API_HOST, "/", path>>,
     method |-> method,
     headers |-> [Host |-> API_HOST, UserAgent |-> API_USER_AGENT,
                  AcceptEncoding |-> "gzip",
                  Authorization |-> <<"Bearer ">> \o idToken],
     body |-> body]

apiRequest ==
    /\ api = NoRequest
    /\ \E opts \in ApiCalls :
         api' = [sent |-> TRUE, opts |-> opts,
                 fetch |-> RequestOf(opts.path, opts.method, opts.body)]
    /\ UNCHANGED loginVars

\* the response of the API host reaches the caller
ApiResponse ==
    /\ api # NoRequest
    /\ api' = NoRequest
    /\ UNCHANGED loginVars

Next ==
    \/ StartLogin
    \/ BootstrapReply
    \/ SignInFails
    \/ SignInReply
    \/ GenCodeFails
    \/ GenCodeReply
    \/ SubmitMfa
    \/ \E r \in DOMAIN cb : VerifyAnswerThrows(r)
    \/ \E r \in DOMAIN cb : VerifyAnswerReply(r)
    \/ \E r \in DOMAIN cb : CurrentUserThrows(r)
    \/ \E r \in DOMAIN cb : CurrentUserReply(r)
    \/ \E r \in DOMAIN cb : SessionReply(r)
    \/ CloseTimer
    \/ FinalUserThrows
    \/ FinalUserReply
    \/ FinalSessionReply
    \/ apiRequest
    \/ ApiResponse

Spec == Init /\ [][Next]_vars

\* every call awaited from the provider or the API host settles, and a timer
\* that was set fires; nothing makes the user submit a code, the plugin
\* start another login or send an API request
Fairness ==
    /\ WF_vars(BootstrapReply)
    /\ WF_vars(SignInFails \/ SignInReply)
    /\ WF_vars(GenCodeFails \/ GenCodeReply)
    /\ WF_vars(\E r \in DOMAIN cb : VerifyAnswerThrows(r) \/ VerifyAnswerReply(r))
    /\ WF_vars(\E r \in DOMAIN cb : CurrentUserThrows(r) \/ CurrentUserReply(r))
    /\ WF_vars(\E r \in DOMAIN cb : SessionReply(r))
    /\ WF_vars(CloseTimer)
    /\ WF_vars(FinalUserThrows \/ FinalUserReply)
    /\ WF_vars(FinalSessionReply)
    /\ WF_vars(ApiResponse)

FairSpec == Spec /\ Fairness

\* ================================================================== claims

\* C1: when the provider validates the stored session (getSession calls back
\* without error), the call ends Authenticated with idToken equal to the id
\* token of the session the provider returned, and it has made no
\* Auth.signIn call, requested no MFA code and started no listener.
C1_CachedSessionLogsIn ==
    (hist.boot # Unset /\ ~hist.boot.err) =>
        /\ Authenticated
        /\ hist.outcome = "cached"
        /\ idToken = hist.boot.session.idToken.jwtToken
        /\ hist.signIn = 0
        /\ ~hist.codeRequested
        /\ server = "none"
        /\ reqs = <<>>

\* a stored session was validated and came back refreshed: the id token in
\* memory is the new one, not the stored one
C1_Witness ==
    /\ hist.boot # Unset
    /\ ~hist.boot.err
    /\ pc = "done"
    /\ hist.handed.IdToken # idToken
    /\ idToken \in Tokens

\* C4: when Auth.signIn fails after an absent or invalid cached session, the
\* call has returned unauthenticated: one sign-in attempt only, the token
\* file as it was, no MFA code requested, no listener started.
C4_SignInFailureIsTerminal ==
    hist.outcome = "signInFailed" =>
        /\ pc = "done"
        /\ ~Authenticated
        /\ hist.signIn = 1
        /\ file = hist.file0
        /\ ~Wrote
        /\ ~hist.codeRequested
        /\ server = "none"
        /\ idToken = hist.idToken0

\* the sign-in failed after the provider had refused the stored session
C4_Witness ==
    /\ hist.outcome = "signInFailed"
    /\ hist.boot # Unset
    /\ hist.boot.err
    /\ file # NoFile

\* C5: when Auth.signIn returns a user whose challengeName is not
\* CUSTOM_CHALLENGE (another challenge, or none), the call ends
\* unauthenticated: idToken is undefined, no listener was started and the
\* token file is as it was.
C5_UnsupportedChallenge ==
    (user \in ChallengeNames \ {"CUSTOM_CHALLENGE"}) =>
        /\ pc = "done"
        /\ hist.outcome = "unknownChallenge"
        /\ ~Authenticated
        /\ idToken = Undefined
        /\ server = "none"
        /\ file = hist.file0
        /\ ~Wrote
        /\ ~hist.codeRequested

\* an unsupported challenge ended a call that had started with an id token
\* in memory from the call before
C5_Witness ==
    /\ user = "SOFTWARE_TOKEN_MFA"
    /\ pc = "done"
    /\ hist.idToken0 # Undefined
    /\ idToken = Undefined


\* C2 (as claimed): with the cached session absent or refused, a sign-in that
\* returns CUSTOM_CHALLENGE and one submission of the correct code, the
\* listener is started only after the code was requested, and once the call
\* has ended it has ended Authenticated: it returned, it wrote a credential
\* record to the token file and idToken is set.
C2_CorrectCodeAuthenticates ==
    /\ server # "none" => hist.codeRequested
    /\ ( /\ pc \in {"done", "threw"}
         /\ user = "CUSTOM_CHALLENGE"
         /\ Len(reqs) = 1
         /\ reqs[1].code = GoodCode )
       => /\ Authenticated
          /\ Wrote
          /\ Truthy(written.value)
          /\ idToken \in Tokens

\* C3 (as claimed): while every code submitted so far was incorrect and has
\* had its verdict, the flow is still waiting for a code with the listener
\* open, the token file untouched and idToken as it was; and when a correct
\* code follows them, the call, once ended, has ended Authenticated.
C3_RetryThenCorrectCode ==
    LET n == Len(reqs)
        wrongAnswered(k) ==
            \A r \in 1..k : reqs[r].code = BadCode /\ reqs[r].resp = "/?error=bad+code"
    IN /\ (pc = "awaitCode" /\ wrongAnswered(n))
          => /\ server = "listening"
             /\ codeListeners = 1
             /\ file = hist.file0
             /\ idToken = hist.idToken0
       /\ ( /\ pc \in {"done", "threw"}
            /\ n >= 2
            /\ wrongAnswered(n - 1)
            /\ reqs[n].code = GoodCode )
          => /\ Authenticated
             /\ Wrote
             /\ Truthy(written.value)
             /\ idToken \in Tokens

\* the part of C3 about the wrong codes alone
C3_WrongCodesKeepWaiting ==
    (pc = "awaitCode" /\ \A r \in DOMAIN reqs :
                            reqs[r].code = BadCode /\ reqs[r].resp = "/?error=bad+code")
        => /\ server = "listening"
           /\ codeListeners = 1
           /\ file = hist.file0
           /\ idToken = hist.idToken0

\* C6 (as claimed): every request is answered with the verdict of the code
\* it carried: /success.html only if the provider was given and accepted
\* that code, /?error=bad+code only if it was given and rejected that code.
C6_OwnVerdictAlways ==
    \A r \in DOMAIN reqs :
        /\ reqs[r].resp = "/success.html" => (reqs[r].sent /\ reqs[r].code = GoodCode)
        /\ reqs[r].resp = "/?error=bad+code" => (reqs[r].sent /\ reqs[r].code # GoodCode)

\* C6 (amended): a request that arrives while the loop waits for a code has
\* its code verified and is answered with the verdict of that code; a
\* request that arrives while an earlier code is being verified is not
\* verified and, if answered, gets the verdict of that earlier code.
C6_VerdictOfVerifiedCode ==
    \A r \in DOMAIN reqs :
        /\ reqs[r].sent =>
             /\ reqs[r].during = {}
             /\ reqs[r].resp = "/success.html" => reqs[r].code = GoodCode
             /\ reqs[r].resp = "/?error=bad+code" => reqs[r].code # GoodCode
        /\ (~reqs[r].sent /\ reqs[r].resp # "pending") =>
             /\ reqs[r].during # {}
             /\ \A q \in reqs[r].during : reqs[q].sent /\ reqs[q].resp = reqs[r].resp

\* a wrong code that arrived during the verification of a correct one was
\* answered with the success redirect, and the correct one with it
C6_Witness ==
    \E r \in DOMAIN reqs :
        /\ ~reqs[r].sent
        /\ reqs[r].code = BadCode
        /\ reqs[r].resp = "/success.html"
        /\ \E q \in reqs[r].during : reqs[q].code = GoodCode /\ reqs[q].resp = "/success.html"

\* C7: each apiRequest call sends one request, to https://<API_HOST>/<path>
\* with the method and body it was given and Authorization 'Bearer ' followed
\* by idToken as it is at the call (after a login that ended Authenticated,
\* the id token that login captured); the call leaves idToken alone, and
\* the response ends it without a second request.
C7_ApiRequestBearsIdToken ==
    [][ /\ (~api.sent /\ api'.sent) =>
             /\ api'.fetch.url = <<"https://", API_HOST, "/", api'.opts.path>>
             /\ api'.fetch.method = api'.opts.method
             /\ api'.fetch.body = api'.opts.body
             /\ api'.fetch.headers.Authorization = <<"Bearer ">> \o idToken
             /\ Authenticated =>
                  api'.fetch.headers.Authorization = <<"Bearer ">> \o credentials.idToken
             /\ (Authenticated /\ hist.outcome = "cached") =>
                  api'.fetch.headers.Authorization
                      = <<"Bearer ">> \o hist.boot.session.idToken.jwtToken
             /\ idToken' = idToken
        /\ (api.sent /\ api' # api) => (~api'.sent /\ idToken' = idToken)
      ]_vars

\* a POST with a body is in flight after an MFA login that captured a
\* credential record, bearing the captured id token
C7_Witness ==
    /\ api.sent
    /\ api.opts.method = "POST"
    /\ Authenticated
    /\ hist.outcome = "mfa"
    /\ api.fetch.headers.Authorization = <<"Bearer ">> \o credentials.idToken
    /\ api.fetch.url = <<"https://", API_HOST, "/", "lock/command">>

\* C8: when getSession calls back with an error for the stored session, the
\* bootstrap yields null without raising and the call goes on to Auth.signIn
\* in the state a call with no stored record is in at that point.
C8_BootstrapFailureFallsThrough ==
    [][ (pc = "bootstrap" /\ pc' # "bootstrap" /\ hist'.boot.err) =>
            /\ pc' = "signIn"
            /\ credentials' = Null
            /\ hist' = [Hist0(file, idToken) EXCEPT !.signIn = 1,
                                                   !.handed = hist.handed,
                                                   !.boot = hist'.boot]
            /\ <<file, idToken, run, user, server, timers, codeListeners, feedback,
                 reqs, cb, written>>'
                 = <<file, idToken, run, NoUser, "none", 0, 0, <<>>, <<>>, <<>>, written>>
      ]_vars

\* the provider refused a stored session and the call is at Auth.signIn
C8_Witness ==
    /\ pc = "signIn"
    /\ hist.boot # Unset
    /\ hist.boot.err
    /\ credentials = Null

\* C9: until the call writes the file itself, what it loaded is what was
\* last written: a written credential record is loaded with the same three
\* values and these are handed, in order, to logInWithStoredCreds; with no
\* file (or a file holding null) there is no bootstrap attempt and the call
\* goes on to Auth.signIn.
C9_TokenStoreRoundTrip ==
    (run > 0 /\ ~Wrote) =>
        /\ savedCreds = written.value
        /\ file = NoFile <=> written.value = Unset
        /\ IF Truthy(written.value)
           THEN hist.handed = [IdToken |-> written.value.idToken,
                               AccessToken |-> written.value.accessToken,
                               RefreshToken |-> written.value.refreshToken]
           ELSE hist.handed = Unset /\ hist.boot = Unset /\ hist.signIn >= 1

\* the record an MFA login of this process wrote is loaded by the next call
\* and handed to the bootstrap, escaped characters included
C9_Witness ==
    /\ run = 2
    /\ written.by = 1
    /\ pc = "bootstrap"
    /\ savedCreds = written.value
    /\ \E k \in {"idToken", "accessToken", "refreshToken"} : savedCreds[k] = TokQ

\* C10: at most one code is being verified at any time; a code is given to
\* the provider only when nothing is being verified and every code given
\* before it has had its verdict; a code that arrives during a verification
\* is never given to the provider.
C10_OneVerificationAtATime ==
    /\ Cardinality(InFlight) <= 1
    /\ \A r \in DOMAIN reqs :
         /\ reqs[r].during # {} => (~reqs[r].sent /\ cb[r] = "none")
         /\ reqs[r].sent =>
              \A q \in 1..(r - 1) :
                  reqs[q].sent => (reqs[q].resp # "pending" /\ cb[q] = "done")

\* a code arrived during a verification and was dropped, and a later code
\* is being verified after the first verdict
C10_Witness ==
    \E q, d, r \in DOMAIN reqs :
        /\ q < d /\ d < r
        /\ reqs[d].during = {q}
        /\ cb[d] = "none"
        /\ reqs[q].resp = "/?error=bad+code"
        /\ r \in InFlight

\* C11 (as claimed): whatever submissions overlapped it, once no code is
\* being verified any more and the loop has not left, the loop is waiting
\* for a code with its 'code' listener registered; and when a correct code
\* was then verified, the call, once ended, has ended Authenticated.
C11_OverlapNeverDeadlocks ==
    /\ (pc = "awaitCode" /\ InFlight = {}) => codeListeners = 1
    /\ ( /\ pc \in {"done", "threw"}
         /\ \E d \in DOMAIN reqs : reqs[d].during # {}
         /\ \E r \in DOMAIN reqs : reqs[r].sent /\ reqs[r].code = GoodCode )
       => /\ Authenticated
          /\ Wrote
          /\ Truthy(written.value)

\* the part of C11 about overlapping submissions alone: unless a verifyCode
\* answer threw, a loop with nothing in flight has its 'code' listener
C11_OverlapKeepsListener ==
    (pc = "awaitCode" /\ InFlight = {} /\ \A r \in DOMAIN cb : cb[r] # "threw")
        => codeListeners = 1

\* C12 (as claimed): a wrong code whose verification is over has had the
\* failure redirect, by whichever call the provider rejected it, and the
\* loop is then not left in MfaChallenge without a 'code' listener while
\* nothing is being verified.
C12_RejectionLoopsAgain ==
    \A r \in DOMAIN reqs :
        (reqs[r].sent /\ reqs[r].code = BadCode /\ r \notin InFlight) =>
            /\ reqs[r].resp = "/?error=bad+code"
            /\ (pc = "awaitCode" /\ InFlight = {}) => codeListeners >= 1

\* C13 (as claimed): no provider error leaves kwiksetLogin, or a callback it
\* started, as an uncaught failure.
C13_NoProviderErrorEscapes ==
    /\ pc # "threw"
    /\ \A r \in DOMAIN cb : cb[r] # "threw"

\* the verify loop was left with a verified code
LoopLeftVerified ==
    hist.accepted /\ pc \in {"finalUser", "finalSession", "done", "threw"}

\* C14: the listener is closed only after a code was verified successfully
\* (it is open for as long as the loop waits or verifies, rejected codes
\* included), and once a code was verified it is eventually closed.
C14_ListenerLifetime ==
    /\ [](server = "closed" =>
            /\ LoopLeftVerified
            /\ \E r \in DOMAIN reqs :
                 reqs[r].code = GoodCode /\ reqs[r].resp = "/success.html")
    /\ [](pc = "awaitCode" => server = "listening")
    /\ (LoopLeftVerified ~> server = "closed")

\* the listener has closed after a rejected code was followed by an accepted
\* one
C14_Witness ==
    /\ server = "closed"
    /\ \E q, r \in DOMAIN reqs :
         /\ q < r
         /\ reqs[q].resp = "/?error=bad+code"
         /\ reqs[r].resp = "/success.html"

\* C15 (as claimed): when a kwiksetLogin call has finished, idToken is the
\* result of that call: the id token it captured if it ended Authenticated,
\* undefined if it ended unauthenticated.
C15_EachAttemptOverwritesIdToken ==
    pc \in {"done", "threw"} =>
        idToken = IF Authenticated THEN credentials.idToken ELSE Undefined

\* C16: the token file changes only by the write at the end of the MFA path:
\* a call that logged in through the cached session has left the file as it
\* was, refreshed tokens or not, and a call that wrote the file had a code
\* accepted by the provider and answered with the success redirect before.
C16_FileWrittenOnlyAfterMfa ==
    /\ hist.outcome = "cached" => (file = hist.file0 /\ ~Wrote)
    /\ (run > 0 /\ ~Wrote) => file = hist.file0
    /\ Wrote =>
         /\ hist.accepted
         /\ hist.outcome = "mfa"
         /\ \E r \in DOMAIN reqs :
              reqs[r].sent /\ reqs[r].code = GoodCode /\ reqs[r].resp = "/success.html"

\* a cached session came back with tokens other than the stored ones and the
\* file still holds the stored ones
C16_Witness ==
    /\ hist.outcome = "cached"
    /\ credentials # savedCreds
    /\ file = JSONstringify(savedCreds)
    /\ idToken # savedCreds.idToken

\* C17 (as claimed): once the verify loop was left with a verified code and
\* the call has returned, idToken is a captured id token and the token file
\* holds a full credential record.
C17_VerifiedCodeGivesUsableToken ==
    (LoopLeftVerified /\ pc = "done") =>
        /\ idToken \in Tokens
        /\ Wrote
        /\ Truthy(written.value)
        /\ file = JSONstringify(written.value)

\* C18 (as claimed): after an MFA login that ended Authenticated, the id
\* token in the token file is the id token in memory.
C18_DiskAndMemoryAgree ==
    (Authenticated /\ hist.outcome = "mfa") =>
        /\ Truthy(written.value)
        /\ written.value.idToken = idToken
        /\ JSONparse(file).idToken = idToken

\* C19 (as claimed): every POST /submitmfa the listener took is answered;
\* stated where nothing more can answer it: the call has ended, nothing is
\* being verified, no timer is pending and the listener has closed.
C19_EveryRequestAnswered ==
    (pc \in {"done", "threw"} /\ InFlight = {} /\ timers = 0 /\ server = "closed")
        => \A r \in DOMAIN reqs : reqs[r].resp # "pending"

\* C20 (as claimed): 'Logged in!' is logged only by a call that ended
\* Authenticated, with idToken a captured id token.
C20_LoggedInMeansAuthenticated ==
    hist.loggedIn => (Authenticated /\ idToken \in Tokens)
====
